---------------------------- MODULE Spec2Model ----------------------------
(***************************************************************************)
(* Training orchestration of train.py (action-modifiers): parameter        *)
(* groups and their learning rates, the two-stage schedule, the epoch      *)
(* loop with its evaluation and checkpoint cadence.                        *)
(*                                                                         *)
(* Learning rates and parameter values are integers in units of 1/100 of   *)
(* a rate unit, so that args.lr * 0.1 is exact.  The model's forward and    *)
(* backward pass is external: whether one Adam step moves a parameter (by  *)
(* one unit of its group's rate) or finds nothing to apply to it is an     *)
(* input drawn from Grads.                                                 *)
(***************************************************************************)
EXTENDS Integers, Sequences, FiniteSets, TLC

VARIABLES args, requires_grad, state_dict, training, param_groups,
          checkpoint_dir, start_epoch, epoch, idx, pc, writer, calls, trained,
          loss_terms, ops, p1

vars == <<args, requires_grad, state_dict, training, param_groups,
          checkpoint_dir, start_epoch, epoch, idx, pc, writer, calls, trained,
          loss_terms, ops, p1>>

----------------------------------------------------------------------------
(* Bounds of the explored inputs *)

MaxEpochs == 1

MaxCkptEpoch == 1

MaxInterval == 2

MaxBatches == 2

MaxCalls == 3

MaxLossTerms == 3

MaxSamples == 2

(* the loss terms train() reads: all_loss[0] and all_loss[1] *)
LossTerms == 2

(* largest epoch counter any run can reach, and one beyond *)
EpochLimit == MaxCkptEpoch + MaxEpochs + 1

LearningRates == {100}

Grads == {0, 1}

InitValue == 0

CkptValue == 7

----------------------------------------------------------------------------
(* Parameter names are dotted paths, kept as sequences of components *)

ModifierName == <<"module", "action_modifiers", "weight">>

VideoName == <<"video_embedding", "weight">>

ActionName == <<"action_embedding", "weight">>

OldName == <<"old_head", "weight">>

(* named_parameters() of the models explored: name -> requires_grad *)
Models ==
    { (ModifierName :> TRUE) @@ (VideoName :> TRUE) @@ (ActionName :> FALSE),
      (VideoName :> TRUE) @@ (ActionName :> FALSE) }

(* pat in name *)
Contains(pat, name) ==
    \E i \in 0..(Len(name) - Len(pat)) : SubSeq(name, i + 1, i + Len(pat)) = pat

InModifiers(name) == Contains(<<"action_modifiers">>, name)

other_params_untrained(rg) == {n \in DOMAIN rg : ~InModifiers(n)}

optim_params_unfrozen(a, rg) ==
    << [name |-> "action_modifiers",
        params |-> {n \in DOMAIN rg : InModifiers(n) /\ rg[n]}, lr |-> a.lr],
       [name |-> "embedding",
        params |-> {n \in DOMAIN rg : ~InModifiers(n) /\ rg[n]}, lr |-> a.lr] >>

modifier_params(rg) == {n \in DOMAIN rg : InModifiers(n) /\ rg[n]}

other_params(rg) == {n \in DOMAIN rg : ~InModifiers(n) /\ rg[n]}

(* optim.Adam(optim_params, lr=args.lr): a group without 'lr' gets args.lr *)
optim_params(a, rg) ==
    IF ~a.pretrain_action
    THEN << [name |-> "action_modifiers", params |-> modifier_params(rg), lr |-> a.lr],
            [name |-> "embedding", params |-> other_params(rg), lr |-> a.lr] >>
    ELSE << [name |-> "action_modifiers", params |-> modifier_params(rg), lr |-> 0],
            [name |-> "embedding", params |-> other_params(rg), lr |-> a.lr] >>

(* x * 0.1 *)
Tenth(x) == x \div 10

introduce_adverbs_modifiers_only(groups) ==
    [i \in DOMAIN groups |->
        IF groups[i].name = "action_modifiers"
        THEN [groups[i] EXCEPT !.lr = Tenth(args.lr)]
        ELSE groups[i]]

introduce_adverbs_relative(groups) ==
    [i \in DOMAIN groups |-> [groups[i] EXCEPT !.lr = Tenth(groups[i].lr)]]

introduce_adverbs(groups) ==
    [i \in DOMAIN groups |->
        IF groups[i].name = "action_modifiers"
        THEN [groups[i] EXCEPT !.lr = Tenth(args.lr)]
        ELSE [groups[i] EXCEPT !.lr = Tenth(args.lr)]]

AdverbsDue_from(e) == args.pretrain_action /\ e >= args.adverb_start

AdverbsDue_unflagged(e) == e = args.adverb_start

EvalDue_positive(e) == e % args.eval_interval = 0 /\ e > 0

SaveDue_zero(e) == e % args.save_interval = 0

(* the condition of the stage transition in the epoch loop *)
AdverbsDue(e) == args.pretrain_action /\ e = args.adverb_start

EvalDue(e) == e % args.eval_interval = 0

SaveDue(e) == e % args.save_interval = 0 /\ e > 0

GroupLr_default(groups, n) == args.lr

(* the rate of the group that holds parameter n *)
GroupLr(groups, n) ==
    LET i == CHOOSE j \in DOMAIN groups : n \in groups[j].params
    IN groups[i].lr

Optimized(groups) == UNION {groups[i].params : i \in DOMAIN groups}

(* optimizer.step(): every parameter of every group moves by its group's
   rate along the direction g[n] *)
step(groups, sd, g) ==
    [n \in DOMAIN sd |->
        IF n \in Optimized(groups) THEN sd[n] - GroupLr(groups, n) * g[n] ELSE sd[n]]

model_train_forgotten(mode) == mode

(* model.train() and model.eval(): the module's training flag *)
model_train(mode) == TRUE

model_eval(mode) == FALSE

BatchOps_step_first == <<"forward", "zero_grad", "step", "backward">>

(* what train() does with one batch, in the order of its statements *)
BatchOps == <<"forward", "zero_grad", "backward", "step">>

(* a record of the metrics sink: tag, step, and the batches its value is
   computed from *)
RECURSIVE Records(_, _, _)
Records(tag, e, n) ==
    IF n = 0 THEN <<>>
    ELSE Append(Records(tag, e, n - 1), [tag |-> tag, step |-> e, value |-> {n}])

TestRecords_aggregate(e) ==
    << [tag |-> "Acc/Test/Video-to-Adverb Antonym", step |-> e,
        value |-> 1..args.loader_len[2]] >>

(* test(): one accuracy record per batch of the test loader *)
TestRecords(e) == Records("Acc/Test/Video-to-Adverb Antonym", e, args.loader_len[2])

(* train(): the three losses, each the mean over the batches of the epoch *)
TrainRecords(e) ==
    << [tag |-> "Loss/Train/Total", step |-> e, value |-> 1..args.loader_len[1]],
       [tag |-> "Loss/Train/Action", step |-> e, value |-> 1..args.loader_len[1]],
       [tag |-> "Loss/Train/Adverb", step |-> e, value |-> 1..args.loader_len[1]] >>

Call(op, e) == [op |-> op, epoch |-> e]

save_checkpoint_next(dir, sd, e) ==
    [f \in (DOMAIN dir) \cup {e} |-> IF f = e THEN [net |-> sd, epoch |-> e + 1] ELSE dir[f]]

load_state_reinitialised(sd, net) ==
    [n \in DOMAIN sd |-> IF n \in DOMAIN net THEN net[n] ELSE InitValue]

(* save_checkpoint(): the file ckpt_E_<e> of the checkpoint directory *)
save_checkpoint(dir, sd, e) ==
    [f \in (DOMAIN dir) \cup {e} |-> IF f = e THEN [net |-> sd, epoch |-> e] ELSE dir[f]]

(* the merge of a loaded checkpoint into the live state dict *)
load_state(sd, net) ==
    [n \in DOMAIN sd |-> IF n \in DOMAIN net THEN net[n] ELSE sd[n]]

LastEpoch_exclusive == start_epoch + args.max_epochs - 1

(* range(start_epoch, start_epoch+args.max_epochs+1) *)
LastEpoch == start_epoch + args.max_epochs

----------------------------------------------------------------------------
(* Inputs *)

Empty == [f \in {} |-> 0]

OldCheckpoint(e) ==
    [net |-> (VideoName :> CkptValue) @@ (OldName :> CkptValue), epoch |-> e]

(* lengths of the train and the test loader *)
LoaderLens == {<<n, MaxBatches + 1 - n>> : n \in 1..MaxBatches}

Args ==
    [ pretrain_action : BOOLEAN,
      adverb_start : 0..EpochLimit,
      lr : LearningRates,
      max_epochs : 0..MaxEpochs,
      eval_interval : 1..MaxInterval,
      save_interval : 1..MaxInterval,
      loader_len : LoaderLens,
      load : {<<>>} \cup {<<e>> : e \in 1..MaxCkptEpoch} ]

NoBatch == <<>>

(* the state after the optimizer is constructed, for arguments of A, a
   model that returns a number of loss terms of L and a test batch of B,
   with main() at the statement at *)
Constructed(A, L, B, at) ==
    /\ args \in A
    /\ loss_terms \in L
    /\ ops = <<>>
    /\ p1 \in B
    /\ requires_grad \in Models
    /\ state_dict = [n \in DOMAIN requires_grad |-> InitValue]
    /\ training = TRUE
    /\ param_groups = optim_params(args, requires_grad)
    /\ checkpoint_dir = IF args.load = <<>> THEN Empty
                        ELSE (args.load[1] :> OldCheckpoint(args.load[1]))
    /\ start_epoch = 0
    /\ epoch = 0
    /\ idx = 0
    /\ pc = at
    /\ writer = <<>>
    /\ calls = <<>>
    /\ trained = [epoch |-> -1, net |-> state_dict]

Init == Constructed(Args, {LossTerms}, {NoBatch}, "load")

----------------------------------------------------------------------------
(* main() *)

Load ==
    /\ pc = "load"
    /\ IF args.load # <<>>
       THEN LET checkpoint == checkpoint_dir[args.load[1]]
            IN /\ state_dict' = load_state(state_dict, checkpoint.net)
               /\ start_epoch' = checkpoint.epoch
               /\ epoch' = checkpoint.epoch
       ELSE UNCHANGED <<state_dict, start_epoch, epoch>>
    /\ trained' = [trained EXCEPT !.net = state_dict']
    /\ pc' = "baseline"
    /\ UNCHANGED <<args, loss_terms, p1, ops, requires_grad, training, param_groups, checkpoint_dir,
                   idx, writer, calls>>

Baseline ==
    /\ pc = "baseline"
    /\ training' = model_eval(training)
    /\ writer' = writer \o TestRecords(start_epoch)
    /\ calls' = Append(calls, Call("test", start_epoch))
    /\ pc' = "loop"
    /\ UNCHANGED <<args, loss_terms, p1, ops, requires_grad, state_dict, param_groups, checkpoint_dir,
                   start_epoch, epoch, idx, trained>>

ForEpoch ==
    /\ pc = "loop"
    /\ epoch <= LastEpoch
    /\ pc' = "advance"
    /\ UNCHANGED <<args, loss_terms, p1, ops, requires_grad, state_dict, training, param_groups,
                   checkpoint_dir, start_epoch, epoch, idx, writer, calls, trained>>

(* if args.pretrain_action and epoch == args.adverb_start: introduce_adverbs *)
advance(e) ==
    IF AdverbsDue(e)
    THEN /\ param_groups' = introduce_adverbs(param_groups)
         /\ calls' = Append(calls, Call("introduce_adverbs", e))
    ELSE UNCHANGED <<param_groups, calls>>

Advance ==
    /\ pc = "advance"
    /\ advance(epoch)
    /\ pc' = "train"
    /\ UNCHANGED <<args, loss_terms, p1, ops, requires_grad, state_dict, training, checkpoint_dir,
                   start_epoch, epoch, idx, writer, trained>>

TrainBegin ==
    /\ pc = "train"
    /\ training' = model_train(training)
    /\ idx' = 0
    /\ ops' = <<>>
    /\ pc' = "batch"
    /\ UNCHANGED <<args, loss_terms, p1, requires_grad, state_dict, param_groups, checkpoint_dir,
                   start_epoch, epoch, writer, calls, trained>>

TrainBatch ==
    /\ pc = "batch"
    /\ idx < args.loader_len[1]
    /\ IF loss_terms = 0
       THEN (* sum(()) is the integer 0: loss.backward() raises *)
            /\ ops' = ops \o SubSeq(BatchOps, 1, 2)
            /\ pc' = "AttributeError"
            /\ UNCHANGED <<state_dict, idx>>
       ELSE /\ \E g \in [Optimized(param_groups) -> Grads] :
                  state_dict' = step(param_groups, state_dict, g)
            /\ ops' = ops \o BatchOps
            /\ IF loss_terms < LossTerms
               THEN (* all_loss[1] raises after the step *)
                    pc' = "IndexError" /\ idx' = idx
               ELSE pc' = pc /\ idx' = idx + 1
    /\ UNCHANGED <<args, loss_terms, p1, requires_grad, training, param_groups, checkpoint_dir,
                   start_epoch, epoch, writer, calls, trained>>

TrainEnd ==
    /\ pc = "batch"
    /\ idx = args.loader_len[1]
    /\ IF args.loader_len[1] = 0
       THEN (* train_loss /= len(train_loader) divides by zero *)
            /\ pc' = "ZeroDivisionError"
            /\ UNCHANGED <<writer, calls, trained>>
       ELSE /\ writer' = writer \o TrainRecords(epoch)
            /\ calls' = Append(calls, Call("train", epoch))
            /\ trained' = [epoch |-> epoch, net |-> state_dict]
            /\ pc' = "eval"
    /\ UNCHANGED <<args, loss_terms, p1, ops, requires_grad, state_dict, training, param_groups,
                   checkpoint_dir, start_epoch, epoch, idx>>

Evaluate ==
    /\ pc = "eval"
    /\ IF EvalDue(epoch)
       THEN /\ training' = model_eval(training)
            /\ writer' = writer \o TestRecords(epoch)
            /\ calls' = Append(calls, Call("test", epoch))
       ELSE UNCHANGED <<training, writer, calls>>
    /\ pc' = "save"
    /\ UNCHANGED <<args, loss_terms, p1, ops, requires_grad, state_dict, param_groups, checkpoint_dir,
                   start_epoch, epoch, idx, trained>>

Save ==
    /\ pc = "save"
    /\ IF SaveDue(epoch)
       THEN /\ checkpoint_dir' = save_checkpoint(checkpoint_dir, state_dict, epoch)
            /\ calls' = Append(calls, Call("save_checkpoint", epoch))
       ELSE UNCHANGED <<checkpoint_dir, calls>>
    /\ epoch' = epoch + 1
    /\ pc' = "loop"
    /\ UNCHANGED <<args, loss_terms, p1, ops, requires_grad, state_dict, training, param_groups,
                   start_epoch, idx, writer, trained>>

Close ==
    /\ pc = "loop"
    /\ epoch > LastEpoch
    /\ pc' = "done"
    /\ UNCHANGED <<args, loss_terms, p1, ops, requires_grad, state_dict, training, param_groups,
                   checkpoint_dir, start_epoch, epoch, idx, writer, calls, trained>>

Next ==
    \/ Load
    \/ Baseline
    \/ ForEpoch
    \/ Advance
    \/ TrainBegin
    \/ TrainBatch
    \/ TrainEnd
    \/ Evaluate
    \/ Save
    \/ Close

Spec == Init /\ [][Next]_vars

----------------------------------------------------------------------------
(* main() with a model that returns any number of loss terms and with
   loaders of any length, the empty ones included *)

FaultArgs ==
    [ pretrain_action : {FALSE},
      adverb_start : {0},
      lr : LearningRates,
      max_epochs : 0..MaxEpochs,
      eval_interval : {1},
      save_interval : {1},
      loader_len : (0..MaxBatches) \X (0..MaxBatches),
      load : {<<>>} ]

InitFault == Constructed(FaultArgs, 0..MaxLossTerms, {NoBatch}, "load")

SpecFault == InitFault /\ [][Next]_vars

----------------------------------------------------------------------------
(* The transition check of the epoch loop on its own: applied to the
   optimizer for epoch values in any order, the same value again included *)

Reapply ==
    \E e \in 0..EpochLimit :
        /\ Len(calls) < MaxCalls
        /\ advance(e)
        /\ epoch' = e
        /\ UNCHANGED <<args, loss_terms, p1, ops, requires_grad, state_dict, training, checkpoint_dir,
                       start_epoch, idx, pc, writer, trained>>

NextSched == Reapply

SpecSched == Init /\ [][NextSched]_vars

----------------------------------------------------------------------------
(* Saving and loading on their own: a checkpoint of any subset of names
   loaded into a live model of any values, and a checkpoint saved from the
   live model loaded back into it *)

LiveValues == {InitValue, 3}

CkptNets ==
    UNION {[K -> {CkptValue}] : K \in SUBSET {ModifierName, VideoName, ActionName, OldName}}

CkptArgs ==
    {a \in Args : /\ a.load # <<>>
                  /\ ~a.pretrain_action
                  /\ a.adverb_start = 0
                  /\ a.max_epochs = 0
                  /\ a.eval_interval = 1
                  /\ a.save_interval = 1
                  /\ a.loader_len[1] = 1}

InitCkpt ==
    /\ args \in CkptArgs
    /\ loss_terms = LossTerms
    /\ ops = <<>>
    /\ p1 = NoBatch
    /\ requires_grad \in Models
    /\ state_dict \in [DOMAIN requires_grad -> LiveValues]
    /\ training = TRUE
    /\ param_groups = optim_params(args, requires_grad)
    /\ pc \in {"checkpoint", "load"}
    /\ IF pc = "load"
       THEN /\ \E net \in CkptNets, e \in 0..MaxCkptEpoch :
                  checkpoint_dir = (args.load[1] :> [net |-> net, epoch |-> e])
            /\ epoch = 0
            /\ trained = [epoch |-> -1, net |-> state_dict]
       ELSE /\ checkpoint_dir = Empty
            /\ epoch = args.load[1]
            /\ trained = [epoch |-> epoch, net |-> state_dict]
    /\ start_epoch = 0
    /\ idx = 0
    /\ writer = <<>>
    /\ calls = <<>>

(* save_checkpoint(model, epoch) *)
Checkpoint ==
    /\ pc = "checkpoint"
    /\ checkpoint_dir' = save_checkpoint(checkpoint_dir, state_dict, epoch)
    /\ calls' = Append(calls, Call("save_checkpoint", epoch))
    /\ pc' = "load"
    /\ UNCHANGED <<args, loss_terms, p1, ops, requires_grad, state_dict, training, param_groups,
                   start_epoch, epoch, idx, writer, trained>>

NextCkpt ==
    \/ Checkpoint
    \/ Load

SpecCkpt == InitCkpt /\ [][NextCkpt]_vars

----------------------------------------------------------------------------
(* One batch of test(): the scores of each sample against every pair, the
   action-conditioned scores the evaluator returns, calculate_p1 *)

(* dset.pairs as (adverb, action), dset.adverb2idx, dset.action2idx *)
PairTables ==
    { << <<"fast", "run">>, <<"slow", "run">>, <<"fast", "walk">> >>,
      << <<"fast", "walk">>, <<"fast", "run">>, <<"slow", "run">> >>,
      << <<"fast", "run">>, <<"fast", "walk">>, <<"slow", "run">>, <<"slow", "walk">> >> }

adverb2idx == ("fast" :> 0) @@ ("slow" :> 1)

action2idx == ("run" :> 0) @@ ("walk" :> 1)

Scores == {1, 2}

(* the columns of one row of the score matrix whose pair has action a,
   in the order of the pair table *)
RECURSIVE Restrict(_, _, _, _)
Restrict(row, pairs, a, j) ==
    IF j > Len(pairs) THEN <<>>
    ELSE (IF action2idx[pairs[j][2]] = a THEN <<row[j]>> ELSE <<>>)
         \o Restrict(row, pairs, a, j + 1)

(* evaluator.get_scores(...)[2]: for each sample the scores of the pairs
   that share its ground-truth action *)
antonym_action_gt_scores(pairs, scores, action_gt) ==
    [i \in DOMAIN scores |-> Restrict(scores[i], pairs, action_gt[i], 1)]

argmax_last(row) ==
    CHOOSE c \in 0..(Len(row) - 1) :
        /\ \A k \in 0..(Len(row) - 1) : row[k + 1] <= row[c + 1]
        /\ \A k \in (c + 1)..(Len(row) - 1) : row[k + 1] < row[c + 1]

(* np.argmax of one row: the first index of the maximum, counted from 0 *)
argmax(row) ==
    CHOOSE c \in 0..(Len(row) - 1) :
        /\ \A k \in 0..(Len(row) - 1) : row[k + 1] <= row[c + 1]
        /\ \A k \in 0..(c - 1) : row[k + 1] < row[c + 1]

(* the mean of a boolean vector: the number of True among its length *)
mean(v) == [hits |-> Cardinality({i \in DOMAIN v : v[i]}), of |-> Len(v)]

calculate_p1(pairs, scores, adverb_gt) ==
    LET pair_pred == [i \in DOMAIN scores |-> argmax(scores[i])]
        adverb_pred == [i \in DOMAIN scores |-> adverb2idx[pairs[pair_pred[i] + 1][1]]]
    IN [pair_pred |-> pair_pred,
        adverb_pred |-> adverb_pred,
        acc |-> mean([i \in DOMAIN scores |-> adverb_pred[i] = adverb_gt[i]])]

Candidates(pairs, a) == {j \in DOMAIN pairs : action2idx[pairs[j][2]] = a}

(* the ground-truth actions of n samples for which the rows of the
   action-conditioned matrix have one length *)
ActionsGt(t, n) ==
    {a \in [1..n -> {0, 1}] :
       \A i, k \in 1..n :
          Cardinality(Candidates(t, a[i])) = Cardinality(Candidates(t, a[k]))}

(* the batches of n samples over the pair table t *)
Batches(t, n) ==
    [ pairs : {t},
      scores : [1..n -> [DOMAIN t -> Scores]],
      adverb_gt : [1..n -> {0, 1}],
      action_gt : ActionsGt(t, n) ]

P1Args ==
    {a \in Args : /\ a.load = <<>>
                  /\ ~a.pretrain_action
                  /\ a.adverb_start = 0
                  /\ a.max_epochs = 0
                  /\ a.eval_interval = 1
                  /\ a.save_interval = 1
                  /\ a.loader_len[1] = 1}

InitP1 ==
    /\ \E t \in PairTables, n \in 0..MaxSamples :
          Constructed(P1Args, {LossTerms}, Batches(t, n), "test")
    /\ ModifierName \notin DOMAIN requires_grad

(* lines 109-112 of test() for one batch *)
TestBatch ==
    /\ pc = "test"
    /\ pc' = "tested"
    /\ LET restricted == antonym_action_gt_scores(p1.pairs, p1.scores, p1.action_gt)
           out == calculate_p1(p1.pairs, restricted, p1.adverb_gt)
       IN p1' = [pairs |-> p1.pairs, scores |-> p1.scores,
                 adverb_gt |-> p1.adverb_gt, action_gt |-> p1.action_gt,
                 restricted |-> restricted,
                 pair_pred |-> out.pair_pred,
                 adverb_pred |-> out.adverb_pred,
                 acc |-> out.acc]
    /\ UNCHANGED <<args, loss_terms, ops, requires_grad, state_dict, training,
                   param_groups, checkpoint_dir, start_epoch, epoch, idx,
                   writer, calls, trained>>

NextP1 == TestBatch

SpecP1 == InitP1 /\ [][NextP1]_vars

----------------------------------------------------------------------------
(* Notions the properties are stated in *)

(* the learning rate of the named group *)
Rate(name) ==
    LET i == CHOOSE j \in DOMAIN param_groups : param_groups[j].name = name
    IN param_groups[i].lr

Members(name) ==
    LET i == CHOOSE j \in DOMAIN param_groups : param_groups[j].name = name
    IN param_groups[i].params

Introductions == {i \in DOMAIN calls : calls[i].op = "introduce_adverbs"}

(* the training stage: Pretrain from construction with the flag set until
   the transition is made, Joint otherwise *)
Stage ==
    IF args.pretrain_action /\ Introductions = {} THEN "Pretrain" ELSE "Joint"

BothTenth == Rate("action_modifiers") * 10 = args.lr /\ Rate("embedding") * 10 = args.lr

Training == pc \in {"train", "batch"}

----------------------------------------------------------------------------
(* C1: with pretraining enabled, the training of epoch adverb_start begins
   (and runs) with both groups at base_lr * 0.1, the transition being the
   call made just before it; the transition itself takes action_modifiers
   from 0 and embedding from base_lr to base_lr * 0.1 in one step that
   trains nothing. *)
C1_AtTraining ==
    (args.pretrain_action /\ Training /\ epoch = args.adverb_start)
        => /\ BothTenth
           /\ calls # <<>>
           /\ calls[Len(calls)] = Call("introduce_adverbs", epoch)

C1_Transition ==
    (pc = "advance" /\ args.pretrain_action /\ epoch = args.adverb_start)
        => /\ Rate("action_modifiers") = 0
           /\ Rate("embedding") = args.lr
           /\ BothTenth'
           /\ state_dict' = state_dict
           /\ pc' = "train"

(* C1: the rates while epoch adverb_start trains, and the step that set them *)
C1_TransitionBeforeTraining == []C1_AtTraining /\ [][C1_Transition]_vars

C1_Witness ==
    /\ args.pretrain_action
    /\ pc = "train"
    /\ epoch = args.adverb_start
    /\ epoch > start_epoch
    /\ Rate("action_modifiers") = 10
    /\ Rate("embedding") = 10

----------------------------------------------------------------------------
(* C2 as stated: every run with the pretraining flag set has made the
   Pretrain -> Joint transition exactly once when it ends. *)
C2_ExactlyOnceInEveryRun ==
    (pc = "done" /\ args.pretrain_action) => Cardinality(Introductions) = 1

(* C2: in a run with the pretraining flag set the transition is made at
   most once, only at the epoch equal to adverb_start, and exactly once by
   the end of the run when adverb_start lies in start_epoch ..
   start_epoch + max_epochs (never when it lies outside); the stage never
   returns to Pretrain and after the transition no learning rate changes. *)
C2_Count ==
    args.pretrain_action =>
        /\ Cardinality(Introductions) <= 1
        /\ \A i \in Introductions : calls[i].epoch = args.adverb_start
        /\ pc = "done" =>
              Cardinality(Introductions) =
                  IF start_epoch <= args.adverb_start /\ args.adverb_start <= LastEpoch
                  THEN 1 ELSE 0

C2_Irreversible ==
    Stage = "Joint" => (Stage' = "Joint" /\ param_groups' = param_groups)

(* C2: the count of transitions in every state, irreversibility in every step *)
C2_TransitionAtMostOnce == []C2_Count /\ [][C2_Irreversible]_vars

C2_Witness ==
    /\ pc = "done"
    /\ args.pretrain_action
    /\ start_epoch > 0
    /\ Cardinality(Introductions) = 1
    /\ Stage = "Joint"

----------------------------------------------------------------------------
(* C3: however often and in whatever order the transition check is applied,
   once it was applied for epoch = adverb_start (pretraining enabled) both
   rates are base_lr * 0.1, a second application included, and until then
   the rates are those of construction; an application for an epoch other
   than adverb_start changes no learning rate. *)
C3_Rates ==
    IF Introductions # {}
    THEN BothTenth
    ELSE param_groups = optim_params(args, requires_grad)

C3_OtherEpochs ==
    (epoch' # args.adverb_start) => param_groups' = param_groups

(* C3: the rates after any applications, and the applications that change none *)
C3_Idempotent == []C3_Rates /\ [][C3_OtherEpochs]_vars

C3_Witness ==
    /\ Cardinality(Introductions) >= 2
    /\ Rate("action_modifiers") = 10
    /\ Rate("embedding") = 10

----------------------------------------------------------------------------
(* C4: with pretraining enabled, in every state from construction until the
   transition is made (the training epochs before it included) the
   action_modifiers rate is 0 and the embedding rate is the base rate. *)
C4_PretrainRates ==
    (args.pretrain_action /\ Stage = "Pretrain")
        => Rate("action_modifiers") = 0 /\ Rate("embedding") = args.lr

C4_Witness ==
    /\ args.pretrain_action
    /\ Stage = "Pretrain"
    /\ pc = "batch"
    /\ idx >= 1
    /\ epoch > start_epoch

----------------------------------------------------------------------------
(* C5: with pretraining disabled the stage is Joint from the start, the
   transition is never made and both groups keep the base rate in every
   state, the epoch equal to adverb_start included. *)
C5_NoTransition ==
    ~args.pretrain_action
        => /\ Stage = "Joint"
           /\ Introductions = {}
           /\ Rate("action_modifiers") = args.lr
           /\ Rate("embedding") = args.lr

C5_Witness ==
    /\ ~args.pretrain_action
    /\ pc = "batch"
    /\ idx >= 1
    /\ epoch = args.adverb_start

----------------------------------------------------------------------------
(* the training loop has consumed every batch of the loader *)
EpochDone == pc = "batch" /\ idx = args.loader_len[1]

(* C6 as stated: a full epoch trained with pretraining enabled and the
   action_modifiers rate at 0 leaves every action_modifiers parameter at
   the value it had before the epoch and changes every embedding
   parameter. *)
C6_EmbeddingAlwaysChanges ==
    (EpochDone /\ args.pretrain_action /\ Rate("action_modifiers") = 0)
        => /\ \A n \in Members("action_modifiers") : state_dict[n] = trained.net[n]
           /\ \A n \in Members("embedding") : state_dict[n] # trained.net[n]

(* C6: with pretraining enabled and the action_modifiers rate at 0, every
   optimizer step, and so a full epoch of any number of batches, leaves
   every action_modifiers parameter (and every parameter outside the two
   groups) at its value; a step moves an embedding parameter by the
   embedding group's rate, the base rate, when the step has an update for
   it, and leaves it alone otherwise. *)
C6_EpochFrame ==
    (EpochDone /\ args.pretrain_action /\ Rate("action_modifiers") = 0)
        => /\ \A n \in Members("action_modifiers") : state_dict[n] = trained.net[n]
           /\ \A n \in DOMAIN state_dict \ Members("embedding") :
                 state_dict[n] = trained.net[n]

C6_StepFrame ==
    (pc = "batch" /\ args.pretrain_action /\ Rate("action_modifiers") = 0)
        => /\ Rate("embedding") = args.lr
           /\ \A n \in DOMAIN state_dict \ Members("embedding") :
                 state_dict'[n] = state_dict[n]
           /\ \A n \in Members("embedding") :
                 state_dict'[n] \in {state_dict[n], state_dict[n] - args.lr}

(* C6: the frame of a whole epoch and of each optimizer step *)
C6_Freeze == []C6_EpochFrame /\ [][C6_StepFrame]_vars

C6_Witness ==
    /\ EpochDone
    /\ idx >= 2
    /\ args.pretrain_action
    /\ Rate("action_modifiers") = 0
    /\ Members("action_modifiers") # {}
    /\ \A n \in Members("action_modifiers") : state_dict[n] = trained.net[n]
    /\ \A n \in Members("embedding") : state_dict[n] = trained.net[n] - 2 * args.lr

----------------------------------------------------------------------------
Trainable == {n \in DOMAIN requires_grad : requires_grad[n]}

(* C7: the two groups are disjoint, together they hold exactly the
   trainable parameters, action_modifiers holding the trainable ones named
   after the modifiers (none, for a model without them); the groups'
   names and members are the same in every state of the run. *)
C7_Partition ==
    /\ Len(param_groups) = 2
    /\ param_groups[1].name = "action_modifiers"
    /\ param_groups[2].name = "embedding"
    /\ param_groups[1].params \cap param_groups[2].params = {}
    /\ param_groups[1].params \cup param_groups[2].params = Trainable
    /\ param_groups[1].params = Trainable \cap {ModifierName}

C7_Fixed ==
    \A i \in DOMAIN param_groups :
        /\ param_groups'[i].name = param_groups[i].name
        /\ param_groups'[i].params = param_groups[i].params

(* C7: the partition in every state, unchanged by every step *)
C7_GroupsPartition == []C7_Partition /\ [][C7_Fixed]_vars

C7_Witness ==
    /\ pc = "done"
    /\ Members("action_modifiers") = {}
    /\ Members("embedding") = {VideoName}
    /\ ActionName \in DOMAIN state_dict

----------------------------------------------------------------------------
TrainCalls == SelectSeq(calls, LAMBDA c : c.op = "train")

(* steps of one pass of the epoch loop, and steps left until the run ends *)
PerEpoch == args.loader_len[1] + 6

StepsLeft ==
    LET whole == (LastEpoch - epoch) * PerEpoch + 1
    IN CASE pc = "done" -> 0
         [] pc = "load" -> (args.max_epochs + 1) * PerEpoch + 3
         [] pc = "baseline" -> (args.max_epochs + 1) * PerEpoch + 2
         [] pc = "loop" -> whole + PerEpoch
         [] pc = "advance" -> whole + PerEpoch - 1
         [] pc = "train" -> whole + PerEpoch - 2
         [] pc = "batch" -> whole + PerEpoch - 3 - idx
         [] pc = "eval" -> whole + 2
         [] pc = "save" -> whole + 1

(* C8: the training loop is called once for each epoch start_epoch,
   start_epoch + 1, ..., start_epoch + max_epochs, in this order
   (start_epoch being 0, or the epoch of the loaded checkpoint); the run
   is never stuck before its end, every step brings the end one step
   closer, and at the end max_epochs + 1 epochs were trained. *)
C8_Epochs ==
    /\ pc # "load" => start_epoch = (IF args.load = <<>> THEN 0 ELSE args.load[1])
    /\ Len(TrainCalls) <= args.max_epochs + 1
    /\ \A i \in DOMAIN TrainCalls : TrainCalls[i].epoch = start_epoch + i - 1
    /\ pc = "done" => Len(TrainCalls) = args.max_epochs + 1
    /\ pc # "done" => ENABLED Next

C8_Progress == StepsLeft' = StepsLeft - 1

(* C8: the epochs trained in every state, progress to the end in every step *)
C8_AllEpochsThenEnd == []C8_Epochs /\ [][C8_Progress]_vars

C8_Witness ==
    /\ pc = "done"
    /\ start_epoch > 0
    /\ args.max_epochs >= 1
    /\ Len(TrainCalls) = args.max_epochs + 1
    /\ TrainCalls[Len(TrainCalls)].epoch = start_epoch + args.max_epochs

----------------------------------------------------------------------------
(* C9: the first call of a run is the baseline evaluation at step
   start_epoch, made before any training; every later evaluation of an
   epoch e directly follows the training of e and has e mod eval_interval
   = 0; and the training of every epoch e with e mod eval_interval = 0 is
   directly followed by the evaluation of e. *)
C9_Cadence ==
    /\ pc \in {"load", "baseline"} => calls = <<>>
    /\ pc \notin {"load", "baseline"} =>
          calls # <<>> /\ calls[1] = Call("test", start_epoch)
    /\ \A i \in DOMAIN calls :
          (calls[i].op = "test" /\ i > 1) =>
              /\ calls[i - 1] = Call("train", calls[i].epoch)
              /\ calls[i].epoch % args.eval_interval = 0
    /\ \A i \in DOMAIN calls :
          (calls[i].op = "train" /\ calls[i].epoch % args.eval_interval = 0) =>
              IF i < Len(calls)
              THEN calls[i + 1] = Call("test", calls[i].epoch)
              ELSE pc = "eval" /\ epoch = calls[i].epoch

C9_Witness ==
    /\ pc = "done"
    /\ \E i \in DOMAIN calls : i > 1 /\ calls[i].op = "test"
    /\ \E i \in DOMAIN calls :
          /\ calls[i].op = "train"
          /\ calls[i].epoch % args.eval_interval # 0
          /\ i < Len(calls)
          /\ calls[i + 1].op # "test"

----------------------------------------------------------------------------
(* C10: a checkpoint is saved for epoch e only if e mod save_interval = 0
   and e > 0, after the training of e and after its evaluation when one is
   due; the training of every such epoch is followed by the save; the file
   written holds epoch e and the state dict as the training of e left it;
   no file is written for epoch 0. *)
C10_Cadence ==
    /\ 0 \notin DOMAIN checkpoint_dir
    /\ \A i \in DOMAIN calls :
          calls[i].op = "save_checkpoint" =>
              LET e == calls[i].epoch
              IN /\ e % args.save_interval = 0
                 /\ e > 0
                 /\ e \in DOMAIN checkpoint_dir
                 /\ checkpoint_dir[e].epoch = e
                 /\ IF e % args.eval_interval = 0
                    THEN /\ i > 2
                         /\ calls[i - 1] = Call("test", e)
                         /\ calls[i - 2] = Call("train", e)
                    ELSE /\ i > 1
                         /\ calls[i - 1] = Call("train", e)
    /\ \A i \in DOMAIN calls :
          LET e == calls[i].epoch
          IN (calls[i].op = "train" /\ e % args.save_interval = 0 /\ e > 0) =>
                \/ epoch = e /\ pc \in {"eval", "save"}
                \/ \E j \in {i + 1, i + 2} \cap DOMAIN calls :
                      calls[j] = Call("save_checkpoint", e)

C10_Content ==
    (Len(calls') > Len(calls) /\ calls'[Len(calls')].op = "save_checkpoint")
        => /\ trained.epoch = epoch
           /\ calls'[Len(calls')].epoch = epoch
           /\ checkpoint_dir'[epoch] = [net |-> trained.net, epoch |-> epoch]
           /\ state_dict' = state_dict

(* C10: when checkpoints are saved, and what each save writes *)
C10_CheckpointCadence == []C10_Cadence /\ [][C10_Content]_vars

C10_Witness ==
    /\ pc = "done"
    /\ \E i \in DOMAIN calls :
          /\ calls[i].op = "save_checkpoint"
          /\ calls[i].epoch % args.eval_interval = 0
          /\ checkpoint_dir[calls[i].epoch].net = state_dict
    /\ \E i \in DOMAIN calls :
          calls[i].op = "train" /\ calls[i].epoch % args.save_interval # 0

----------------------------------------------------------------------------
(* a step in which save_checkpoint is called *)
Saving == Len(calls') > Len(calls) /\ calls'[Len(calls')].op = "save_checkpoint"

(* C11: every save call writes a file name that holds no earlier artifact,
   and no step changes or removes an artifact the directory holds, a run
   resumed from a checkpoint of the same directory included. *)
C11_Step ==
    /\ Saving => calls'[Len(calls')].epoch \notin DOMAIN checkpoint_dir
    /\ \A f \in DOMAIN checkpoint_dir :
          f \in DOMAIN checkpoint_dir' /\ checkpoint_dir'[f] = checkpoint_dir[f]

C11_NeverOverwritten == [][C11_Step]_vars

----------------------------------------------------------------------------
(* C12: loading a checkpoint leaves the live model with its own names;
   every name the checkpoint also holds takes the checkpoint's value, every
   other name keeps its value from before the load, the checkpoint's other
   names are dropped without an error, and the start epoch is the epoch
   the checkpoint stores. *)
C12_Load ==
    (pc = "load" /\ args.load # <<>>)
        => LET checkpoint == checkpoint_dir[args.load[1]]
           IN /\ DOMAIN state_dict' = DOMAIN state_dict
              /\ \A n \in DOMAIN state_dict :
                    state_dict'[n] = IF n \in DOMAIN checkpoint.net
                                     THEN checkpoint.net[n]
                                     ELSE state_dict[n]
              /\ start_epoch' = checkpoint.epoch
              /\ pc' = "baseline"

C12_PartialLoad == [][C12_Load]_vars

C12_Witness ==
    /\ pc = "baseline"
    /\ calls = <<>>
    /\ OldName \in DOMAIN checkpoint_dir[args.load[1]].net
    /\ ModifierName \notin DOMAIN checkpoint_dir[args.load[1]].net
    /\ ModifierName \in DOMAIN state_dict
    /\ state_dict[ModifierName] = 3
    /\ state_dict[VideoName] = CkptValue
    /\ start_epoch = checkpoint_dir[args.load[1]].epoch
    /\ start_epoch # args.load[1]

----------------------------------------------------------------------------
(* C13: loading the checkpoint that was just saved from the live model at
   epoch E back into that model leaves every parameter at the value it had
   when it was saved, and makes E the start epoch. *)
C13_LoadSaved ==
    (pc = "load" /\ calls # <<>> /\ calls[Len(calls)].op = "save_checkpoint")
        => /\ trained.net = state_dict
           /\ state_dict' = trained.net
           /\ start_epoch' = trained.epoch
           /\ start_epoch' = calls[Len(calls)].epoch

C13_RoundTrip == [][C13_LoadSaved]_vars

C13_Witness ==
    /\ pc = "baseline"
    /\ calls # <<>>
    /\ calls[1].op = "save_checkpoint"
    /\ state_dict = checkpoint_dir[args.load[1]].net
    /\ \E n \in DOMAIN state_dict : state_dict[n] = 3
    /\ \E n \in DOMAIN state_dict : state_dict[n] = InitValue
    /\ start_epoch = calls[1].epoch

----------------------------------------------------------------------------
(* the pair a column of sample i's action-conditioned row stands for: the
   c-th (from 0) pair of the table that has the sample's action *)
PairOfColumn(i, c) ==
    CHOOSE j \in Candidates(p1.pairs, p1.action_gt[i]) :
        Cardinality({k \in Candidates(p1.pairs, p1.action_gt[i]) : k < j}) = c

(* C14: for every sample of a batch, the pair whose adverb is taken as the
   prediction has the sample's ground-truth action and is the pair that the
   selected column of the action-conditioned matrix stands for. *)
C14_PredictedPairHasAction ==
    pc = "tested" =>
        \A i \in DOMAIN p1.scores :
            /\ action2idx[p1.pairs[p1.pair_pred[i] + 1][2]] = p1.action_gt[i]
            /\ p1.pair_pred[i] + 1 = PairOfColumn(i, p1.pair_pred[i])

----------------------------------------------------------------------------
(* the lowest column, from 0, that holds the maximum of a row *)
FirstMax(row) ==
    CHOOSE c \in 0..(Len(row) - 1) :
        \A k \in 0..(Len(row) - 1) :
            row[k + 1] < row[c + 1] \/ (row[k + 1] = row[c + 1] /\ c <= k)

Matches ==
    {i \in DOMAIN p1.restricted :
        adverb2idx[p1.pairs[FirstMax(p1.restricted[i]) + 1][1]] = p1.adverb_gt[i]}

(* C15: on a non-empty batch calculate_p1 returns the number of samples
   whose prediction equals the ground-truth adverb index over the number of
   samples, the prediction being the adverb the pair table gives for the
   lowest column that holds the row's maximum; the result lies in [0, 1],
   is 1 when every sample matches and 0 when none does. *)
C15_Accuracy ==
    (pc = "tested" /\ Len(p1.restricted) > 0)
        => /\ p1.acc.of = Len(p1.restricted)
           /\ p1.acc.hits = Cardinality(Matches)
           /\ 0 <= p1.acc.hits /\ p1.acc.hits <= p1.acc.of
           /\ (Matches = DOMAIN p1.restricted) <=> (p1.acc.hits = p1.acc.of)
           /\ (Matches = {}) <=> (p1.acc.hits = 0)

(* scenario A: rows [0.9, 0.1] and [0.2, 0.8] over (fast, run), (slow, run),
   ground truth fast, fast: accuracy 1 of 2 *)
C15_Witness ==
    /\ pc = "tested"
    /\ p1.pairs = << <<"fast", "run">>, <<"slow", "run">>, <<"fast", "walk">> >>
    /\ p1.action_gt = <<0, 0>>
    /\ p1.adverb_gt = <<0, 0>>
    /\ p1.restricted = << <<2, 1>>, <<1, 2>> >>
    /\ p1.acc = [hits |-> 1, of |-> 2]

----------------------------------------------------------------------------
(* C16: whenever the model returns a number of loss terms other than two,
   the training loop fails: no optimizer step is applied for such a batch,
   no batch is completed and no training epoch is reported back to main().
   The code applies the step before it reads the second term, and sums
   three terms or more without complaint. *)

Stepped == \E i \in DOMAIN ops : ops[i] = "step"

C16_WrongTermsFail ==
    loss_terms # 2 =>
        /\ ~Stepped
        /\ idx = 0
        /\ TrainCalls = <<>>

----------------------------------------------------------------------------
(* C17: empty input is rejected: the accuracy function never returns for a
   batch of zero samples.  The code returns the mean of an empty
   comparison. *)

C17_EmptyRejected == pc = "tested" => Len(p1.adverb_gt) > 0

----------------------------------------------------------------------------
(* C18: within one training epoch every batch of the loader is processed
   exactly once; for each batch the steps are forward and loss, clear
   gradients, backward, optimizer step, in that order, with one optimizer
   step per batch, after the backward of the same batch and before the
   forward of the next; the training loop changes neither the epoch counter
   nor a learning rate. *)

C18_Order ==
    /\ Len(ops) = 4 * idx
    /\ \A k \in 0..(idx - 1) :
          /\ ops[4 * k + 1] = "forward"
          /\ ops[4 * k + 2] = "zero_grad"
          /\ ops[4 * k + 3] = "backward"
          /\ ops[4 * k + 4] = "step"
    /\ idx <= args.loader_len[1]
    /\ pc = "eval" => idx = args.loader_len[1]

C18_Frame ==
    Training => /\ epoch' = epoch
                /\ param_groups' = param_groups

C18_BatchOrder == []C18_Order /\ [][C18_Frame]_vars

C18_Witness ==
    /\ pc = "eval"
    /\ idx = 2
    /\ Len(SelectSeq(ops, LAMBDA o : o = "step")) = 2

----------------------------------------------------------------------------
(* C19: model parameters are mutated only by the training loop.  During
   every evaluation pass, the baseline pass and each pass of the cadence,
   the model is in evaluation mode and no parameter value and no learning
   rate changes; every optimizer step happens with the model in training
   mode, also in the epoch that directly follows an evaluation pass.  The
   restore of a checkpoint, before the baseline pass, is the one other
   write to the parameters. *)

Testing == Len(calls') > Len(calls) /\ calls'[Len(calls')].op = "test"

C19_TrainMode == pc = "batch" => training

C19_Step ==
    /\ Testing => /\ ~training'
                  /\ state_dict' = state_dict
                  /\ param_groups' = param_groups
    /\ state_dict' # state_dict /\ pc # "load" =>
          /\ pc = "batch"
          /\ training
          /\ Len(ops') = Len(ops) + 4
          /\ ops'[Len(ops')] = "step"

C19_OnlyTrainingMutates == []C19_TrainMode /\ [][C19_Step]_vars

C19_Witness ==
    /\ pc = "batch"
    /\ idx >= 1
    /\ training
    /\ calls # <<>>
    /\ calls[Len(calls)] = Call("test", epoch - 1)
    /\ state_dict # trained.net

----------------------------------------------------------------------------
(* C20: each evaluation pass over a test loader of B batches emits exactly
   B accuracy records, one per batch and in the order of the batches, all
   with the same tag and with the epoch of the pass as their step, each
   value the accuracy of that one batch; no aggregate over the pass is
   emitted.  When start_epoch is a multiple of eval_interval, the baseline
   pass and the pass of the first epoch both emit at step start_epoch. *)

AccRecords == SelectSeq(writer, LAMBDA r : r.tag = "Acc/Test/Video-to-Adverb Antonym")

TestCalls == SelectSeq(calls, LAMBDA c : c.op = "test")

C20_RecordsPerPass ==
    LET B == args.loader_len[2]
    IN /\ Len(AccRecords) = B * Len(TestCalls)
       /\ \A j \in DOMAIN TestCalls : \A k \in 1..B :
             LET r == AccRecords[(j - 1) * B + k]
             IN /\ r.step = TestCalls[j].epoch
                /\ r.value = {k}
       /\ TestCalls # <<>> => TestCalls[1].epoch = start_epoch
       /\ start_epoch % args.eval_interval = 0 /\ Len(TestCalls) >= 2 =>
             TestCalls[2].epoch = start_epoch

C20_Witness ==
    /\ args.loader_len[2] = 2
    /\ start_epoch = 1
    /\ Len(TestCalls) = 2
    /\ Len(AccRecords) = 4
    /\ AccRecords[1].step = 1
    /\ AccRecords[4].step = 1

=============================================================================
